---- MODULE Spec2Model ----
(***************************************************************************)
(* Model of the Store aggregate of rusty_store (src/rusty_store/src/main.rs): *)
(* products, sale and purchase ledgers, managers and the three id counters, *)
(* with one action per Store mutator.  The variable `last` holds the most    *)
(* recent call (operation, arguments) and what it returned.                 *)
(*                                                                         *)
(* `calls` counts the calls issued so far and `aborted` tells whether a call  *)
(* panicked, which ends the process.  `file` is the content of DATA_FILE    *)
(* and `pc` the place main() has reached.                                   *)
(*                                                                         *)
(* Ledger entries carry a `time` field (Local::now()) that no Store         *)
(* operation reads; it is left out of the entries.  The id counters are u32 *)
(* and would wrap (or panic) only after 2^32 creations, far outside the     *)
(* bounds below.                                                            *)
(***************************************************************************)
EXTENDS Integers, Sequences, FiniteSets, TLC

VARIABLES products, sales, purchases, managers,
          next_product_id, next_sale_id, next_purchase_id,
          last, calls, aborted, file, pc

storeVars == <<products, sales, purchases, managers,
               next_product_id, next_sale_id, next_purchase_id>>
vars == <<products, sales, purchases, managers,
          next_product_id, next_sale_id, next_purchase_id,
          last, calls, aborted, file, pc>>

(* ------------------------------ bounds -------------------------------- *)
\* number of Store calls issued in one run
MaxCalls == 3
\* number of products ever created (caps next_product_id)
MaxProducts == 2

(* ----------------------------- constants ------------------------------ *)
\* quantity is an i32
I32_MAX == 2147483647
I32_MIN == -I32_MAX - 1

DEFAULT_ADMIN_USER == "admin"
DEFAULT_ADMIN_PASS == "password"

(* ------------------------------ inputs -------------------------------- *)
\* f64: a finite value (here always an integer below 2^53, so exactly
\* representable) or a non-finite one; "NaN".parse::<f64>() is Ok
F(n) == [finite |-> TRUE, v |-> n]
NaN == [finite |-> FALSE, v |-> 0]

\* add_product arguments
Names == {"A"}
Descriptions == {"d"}
Prices == {F(5), NaN}
\* i32 quantities: negative, zero, one, and the largest i32
Quantities == {-1, 0, 1, I32_MAX}
\* edit_product arguments, when supplied
NewNames == {"B"}
NewDescriptions == {"e"}
NewPrices == {F(6)}
NewQuantities == {-1, 1}
\* unit prices of record_purchase and record_sale (f64, exactly representable)
UnitPrices == {F(4), F(7)}
\* add_manager and authenticate arguments
Usernames == {"admin", "bob"}
Passwords == {"password", "1234"}
NewPasswords == {"1234"}
\* u32 ids: every id that can exist, and one that never does
Ids == 1..(MaxProducts + 1)

(* Option<T>: None is the empty sequence, Some(v) the one-element sequence *)
None == <<>>
Some(v) == <<v>>
Option(S) == {None} \cup {Some(v) : v \in S}

(* ------------------------------ records ------------------------------- *)
Product(id, name, description, price, quantity) ==
  [id |-> id, name |-> name, description |-> description,
   price |-> price, quantity |-> quantity]

Sale(id, product_id, quantity, sale_price) ==
  [id |-> id, product_id |-> product_id, quantity |-> quantity,
   sale_price |-> sale_price]

Purchase(id, product_id, quantity, purchase_price) ==
  [id |-> id, product_id |-> product_id, quantity |-> quantity,
   purchase_price |-> purchase_price]

Manager(username, password_hash) ==
  [username |-> username, password_hash |-> password_hash]

\* SHA-256 rendered as lowercase hex: a deterministic digest, distinct
\* passwords giving distinct digests, and never the password itself.
hash_password(password) == <<"sha256", password>>

\* A call and its result: err is "Ok" or the StoreError variant ("Panic" when
\* the call panicked), ret the value inside Ok (None for () and for errors).
Call(op, id, name, description, price, quantity, err, ret) ==
  [op |-> op, id |-> id, name |-> name, description |-> description,
   price |-> price, quantity |-> quantity, username |-> None,
   password |-> None, err |-> err, ret |-> ret]

\* a call that takes a username and a password
ManagerCall(op, username, password, err, ret) ==
  [Call(op, None, None, None, None, None, err, ret)
     EXCEPT !.username = Some(username), !.password = Some(password)]

(* ------------------------------ helpers ------------------------------- *)
\* products.iter().position(|p| p.id == id): index of the first match, 0 if none
FindIndex(id) ==
  IF \E i \in 1..Len(products) : products[i].id = id
  THEN CHOOSE i \in 1..Len(products) :
         /\ products[i].id = id
         /\ \A j \in 1..(i - 1) : products[j].id # id
  ELSE 0

find_product(id) ==
  IF FindIndex(id) = 0 THEN None ELSE Some(products[FindIndex(id)])

\* `if quantity <= 0 { return Err(InvalidInput) }`
IsInvalidQuantity_strict(quantity) == quantity < 0
IsInvalidQuantity(quantity) == quantity <= 0

\* `if product.quantity < quantity { return Err(InsufficientStock) }`
InsufficientStock_orEqual(stock, quantity) == stock <= quantity
InsufficientStock(stock, quantity) == stock < quantity

\* `id: self.next_product_id`
AssignedProductId_reuse == Len(products) + 1
AssignedProductId == next_product_id

\* `self.next_*_id += 1`
Bump_twice(n) == n + 2
Bump(n) == n + 1

\* Vec::push
Push_front(s, e) == <<e>> \o s
Push(s, e) == Append(s, e)

\* Vec::remove(i), i 1-based here
RemoveAt_last(s, i) == SubSeq(s, 1, Len(s) - 1)
RemoveAt(s, i) == SubSeq(s, 1, i - 1) \o SubSeq(s, i + 1, Len(s))

\* `if let Some(v) = opt { field = v }`
ApplyOpt_ignored(opt, old) == old
ApplyOpt(opt, old) == IF opt = None THEN old ELSE opt[1]

\* i32 `a += b` for b > 0: whether the sum leaves the i32 range, and the
\* two's-complement result a build without overflow checks stores
Overflows(a, b) == b > 0 /\ a > I32_MAX - b
WrappingAdd(a, b) ==
  IF Overflows(a, b) THEN I32_MIN + (b - (I32_MAX - a) - 1) ELSE a + b

(* Integers beyond TLC's 32 bits: hi * 65536 + lo with 0 <= lo < 65536 *)
WNorm(hi, lo) == [hi |-> hi + (lo \div 65536), lo |-> lo % 65536]
W(n) == WNorm(0, n)
WAdd(a, b) == WNorm(a.hi + b.hi, a.lo + b.lo)
WSub(a, b) == WNorm(a.hi - b.hi, a.lo - b.lo)
\* k * n for an i32 n and a small k
WTimes(k, n) == WNorm(k * W(n).hi, k * W(n).lo)

(* f64 results of the aggregates: every value met here is an integer below *)
(* 2^53, so f64 arithmetic on it is exact; a non-finite operand makes the  *)
(* result non-finite.                                                      *)
F64(finite, w) == [finite |-> finite, w |-> w]
\* `price * quantity as f64`
f64_mul(price, quantity) == F64(price.finite, WTimes(price.v, quantity))
f64_add(a, b) == F64(a.finite /\ b.finite, WAdd(a.w, b.w))
f64_sub(a, b) == F64(a.finite /\ b.finite, WSub(a.w, b.w))
\* Iterator::sum::<f64>(): a left fold from zero
RECURSIVE f64_sum(_)
f64_sum(terms) ==
  IF terms = <<>> THEN F64(TRUE, W(0))
  ELSE f64_add(f64_sum(SubSeq(terms, 1, Len(terms) - 1)), terms[Len(terms)])

\* the listing loops skip an entry whose product no longer resolves
\* (`if let Some(prod) = store.find_product(s.product_id)`); the totals do not
total_sales_resolved ==
  f64_sum([i \in 1..Len(sales) |->
             IF FindIndex(sales[i].product_id) = 0 THEN F64(TRUE, W(0))
             ELSE f64_mul(sales[i].sale_price, sales[i].quantity)])
total_sales ==
  f64_sum([i \in 1..Len(sales) |->
             f64_mul(sales[i].sale_price, sales[i].quantity)])

total_purchases_cost ==
  f64_sum([i \in 1..Len(purchases) |->
             f64_mul(purchases[i].purchase_price, purchases[i].quantity)])

profit == f64_sub(total_sales, total_purchases_cost)

\* self.managers.iter().any(|m| m.username == username && m.password_hash == hash)
Authenticates_usernameOnly(ms, username, password) ==
  \E i \in 1..Len(ms) : ms[i].username = username
Authenticates_firstMatch(ms, username, password) ==
  /\ \E i \in 1..Len(ms) : ms[i].username = username
  /\ LET first == CHOOSE i \in 1..Len(ms) :
                    /\ ms[i].username = username
                    /\ \A j \in 1..(i - 1) : ms[j].username # username
     IN ms[first].password_hash = hash_password(password)
Authenticates(ms, username, password) ==
  LET hash == hash_password(password)
  IN \E i \in 1..Len(ms) :
       ms[i].username = username /\ ms[i].password_hash = hash

(* ---------------------------- persistence ---------------------------- *)
\* the Store held by the caller, as one value
StoreValue ==
  [products |-> products, sales |-> sales, purchases |-> purchases,
   managers |-> managers, next_product_id |-> next_product_id,
   next_sale_id |-> next_sale_id, next_purchase_id |-> next_purchase_id]

\* `if managers.is_empty() { managers.push(default manager) }`
SeedDefaultManager_always(ms) ==
  Push(ms, Manager(DEFAULT_ADMIN_USER, hash_password(DEFAULT_ADMIN_PASS)))
SeedDefaultManager(ms) ==
  IF ms = <<>>
  THEN Push(ms, Manager(DEFAULT_ADMIN_USER, hash_password(DEFAULT_ADMIN_PASS)))
  ELSE ms

\* Store::new()
Store_new ==
  [products |-> <<>>, sales |-> <<>>, purchases |-> <<>>,
   managers |-> SeedDefaultManager(<<>>), next_product_id |-> 1,
   next_sale_id |-> 1, next_purchase_id |-> 1]

\* serde_json writes a finite f64 as a number and a non-finite one as null;
\* reading an f64 accepts a number only
ser_f64(x) == IF x.finite THEN <<"number", x.v>> ELSE <<"null">>
de_f64_ok(j) == j[1] = "number"
de_f64(j) == F(j[2])

\* serde_json::to_string_pretty(self): integers and strings are written as
\* they are and read back unchanged
to_json(st) ==
  <<"json",
    [st EXCEPT
       !.products = [i \in 1..Len(st.products) |->
                       [st.products[i] EXCEPT !.price = ser_f64(@)]],
       !.sales = [i \in 1..Len(st.sales) |->
                    [st.sales[i] EXCEPT !.sale_price = ser_f64(@)]],
       !.purchases = [i \in 1..Len(st.purchases) |->
                        [st.purchases[i] EXCEPT !.purchase_price = ser_f64(@)]]]>>

\* a file content that is not a serialized Store
Garbage == <<"garbage">>

\* serde_json::from_str::<Store>(&s): whether it succeeds, and the Store
from_str_ok(text) ==
  /\ text[1] = "json"
  /\ \A i \in 1..Len(text[2].products) : de_f64_ok(text[2].products[i].price)
  /\ \A i \in 1..Len(text[2].sales) : de_f64_ok(text[2].sales[i].sale_price)
  /\ \A i \in 1..Len(text[2].purchases) :
       de_f64_ok(text[2].purchases[i].purchase_price)
from_str(text) ==
  [text[2] EXCEPT
     !.products = [i \in 1..Len(text[2].products) |->
                     [text[2].products[i] EXCEPT !.price = de_f64(@)]],
     !.sales = [i \in 1..Len(text[2].sales) |->
                  [text[2].sales[i] EXCEPT !.sale_price = de_f64(@)]],
     !.purchases = [i \in 1..Len(text[2].purchases) |->
                      [text[2].purchases[i] EXCEPT !.purchase_price = de_f64(@)]]]

\* Store::load_from_file(): Some(store), or None for Err(IoError)
load_from_file_result ==
  IF file = None
  THEN LET st == Store_new
       IN Some([st EXCEPT !.managers = SeedDefaultManager(@)])
  ELSE IF from_str_ok(file[1]) THEN Some(from_str(file[1])) ELSE None

\* the caller's Store becomes st
HoldStore(st) ==
  /\ products' = st.products
  /\ sales' = st.sales
  /\ purchases' = st.purchases
  /\ managers' = st.managers
  /\ next_product_id' = st.next_product_id
  /\ next_sale_id' = st.next_sale_id
  /\ next_purchase_id' = st.next_purchase_id

(* ------------------------------- Init --------------------------------- *)
\* Store::new()
Init ==
  /\ products = <<>>
  /\ sales = <<>>
  /\ purchases = <<>>
  /\ managers = <<Manager(DEFAULT_ADMIN_USER, hash_password(DEFAULT_ADMIN_PASS))>>
  /\ next_product_id = 1
  /\ next_sale_id = 1
  /\ next_purchase_id = 1
  /\ last = Call("new", None, None, None, None, None, "Ok", None)
  /\ calls = 0
  /\ aborted = FALSE
  /\ file = None
  /\ pc = "ui_loop"

\* the caller issues one Store call at a time, while the process lives
CanCall == pc = "ui_loop" /\ ~aborted /\ calls < MaxCalls

(* ------------------------------ actions ------------------------------- *)
add_product(name, description, price, quantity) ==
  /\ CanCall
  /\ next_product_id <= MaxProducts
  /\ LET product == Product(AssignedProductId, name, description, price, quantity)
     IN /\ next_product_id' = Bump(next_product_id)
        /\ products' = Push(products, product)
        /\ last' = Call("add_product", None, Some(name), Some(description),
                        Some(price), Some(quantity), "Ok", Some(product))
  /\ calls' = calls + 1
  /\ UNCHANGED <<sales, purchases, managers, next_sale_id, next_purchase_id,
                 aborted, file, pc>>

edit_product(id, name, description, price, quantity) ==
  /\ CanCall
  /\ LET i == FindIndex(id)
     IN IF i # 0
        THEN LET p == Product(products[i].id,
                              ApplyOpt(name, products[i].name),
                              ApplyOpt(description, products[i].description),
                              ApplyOpt(price, products[i].price),
                              ApplyOpt(quantity, products[i].quantity))
             IN /\ products' = [products EXCEPT ![i] = p]
                /\ last' = Call("edit_product", Some(id), name, description,
                                price, quantity, "Ok", Some(p))
        ELSE /\ products' = products
             /\ last' = Call("edit_product", Some(id), name, description,
                             price, quantity, "NotFound", None)
  /\ calls' = calls + 1
  /\ UNCHANGED <<sales, purchases, managers, next_product_id, next_sale_id,
                 next_purchase_id, aborted, file, pc>>

delete_product(id) ==
  /\ CanCall
  /\ LET i == FindIndex(id)
     IN IF i # 0
        THEN /\ products' = RemoveAt(products, i)
             /\ last' = Call("delete_product", Some(id), None, None, None, None,
                             "Ok", None)
        ELSE /\ products' = products
             /\ last' = Call("delete_product", Some(id), None, None, None, None,
                             "NotFound", None)
  /\ calls' = calls + 1
  /\ UNCHANGED <<sales, purchases, managers, next_product_id, next_sale_id,
                 next_purchase_id, aborted, file, pc>>

record_purchase(product_id, quantity, purchase_price) ==
  /\ CanCall
  /\ calls' = calls + 1
  /\ UNCHANGED <<sales, managers, next_product_id, next_sale_id, file, pc>>
  /\ LET i == FindIndex(product_id)
         failed(err) ==
           /\ last' = Call("record_purchase", Some(product_id), None, None,
                           Some(purchase_price), Some(quantity), err, None)
           /\ UNCHANGED <<products, purchases, next_purchase_id>>
     IN IF IsInvalidQuantity(quantity)
        THEN failed("InvalidInput") /\ aborted' = aborted
        ELSE IF i = 0
        THEN failed("NotFound") /\ aborted' = aborted
        ELSE \* product.quantity += quantity
             \/ /\ Overflows(products[i].quantity, quantity)
                \* overflow checks on: the addition panics, the process ends
                /\ failed("Panic")
                /\ aborted' = TRUE
             \/ \* in range, or overflow checks off: the sum wraps
                LET pur == Purchase(next_purchase_id, product_id, quantity,
                                    purchase_price)
                IN /\ products' = [products EXCEPT ![i].quantity =
                                     WrappingAdd(@, quantity)]
                   /\ next_purchase_id' = Bump(next_purchase_id)
                   /\ purchases' = Push(purchases, pur)
                   /\ last' = Call("record_purchase", Some(product_id), None, None,
                                   Some(purchase_price), Some(quantity), "Ok",
                                   Some(pur))
                   /\ aborted' = aborted

record_sale(product_id, quantity, sale_price) ==
  /\ CanCall
  /\ calls' = calls + 1
  /\ UNCHANGED <<purchases, managers, next_product_id, next_purchase_id,
                 aborted, file, pc>>
  /\ LET i == FindIndex(product_id)
         failed(err) ==
           /\ last' = Call("record_sale", Some(product_id), None, None,
                           Some(sale_price), Some(quantity), err, None)
           /\ UNCHANGED <<products, sales, next_sale_id>>
     IN IF IsInvalidQuantity(quantity)
        THEN failed("InvalidInput")
        ELSE IF i = 0
        THEN failed("NotFound")
        ELSE IF InsufficientStock(products[i].quantity, quantity)
        THEN failed("InsufficientStock")
        ELSE LET sale == Sale(next_sale_id, product_id, quantity, sale_price)
             IN /\ products' = [products EXCEPT ![i].quantity = @ - quantity]
                /\ next_sale_id' = Bump(next_sale_id)
                /\ sales' = Push(sales, sale)
                /\ last' = Call("record_sale", Some(product_id), None, None,
                                Some(sale_price), Some(quantity), "Ok", Some(sale))

add_manager(username, password) ==
  /\ CanCall
  /\ calls' = calls + 1
  /\ managers' = Push(managers, Manager(username, hash_password(password)))
  /\ last' = ManagerCall("add_manager", username, password, "Ok", None)
  /\ UNCHANGED <<products, sales, purchases, next_product_id, next_sale_id,
                 next_purchase_id, aborted, file, pc>>

authenticate(username, password) ==
  /\ CanCall
  /\ calls' = calls + 1
  /\ last' = ManagerCall("authenticate", username, password, "Ok",
                         Some(Authenticates(managers, username, password)))
  /\ UNCHANGED <<storeVars, aborted, file, pc>>

\* the body of Store::save_to_file
WriteSnapshot ==
  \/ /\ file' = Some(to_json(StoreValue))
     /\ last' = Call("save_to_file", None, None, None, None, None, "Ok", None)
  \/ \* fs::write fails
     /\ file' = file
     /\ last' = Call("save_to_file", None, None, None, None, None,
                     "IoError", None)

save_to_file ==
  /\ CanCall
  /\ calls' = calls + 1
  /\ WriteSnapshot
  /\ UNCHANGED <<storeVars, aborted, pc>>

\* `store = Store::load_from_file()`; on Err the caller keeps what it holds
load_from_file ==
  /\ CanCall
  /\ calls' = calls + 1
  /\ LET r == load_from_file_result
     IN IF r # None
        THEN /\ HoldStore(r[1])
             /\ last' = Call("load_from_file", None, None, None, None, None,
                             "Ok", None)
        ELSE /\ UNCHANGED storeVars
             /\ last' = Call("load_from_file", None, None, None, None, None,
                             "IoError", None)
  /\ UNCHANGED <<aborted, file, pc>>

\* reports_menu, "Sales & Profit summary": the three aggregates, read only
report ==
  /\ CanCall
  /\ calls' = calls + 1
  /\ last' = Call("report", None, None, None, None, None, "Ok",
                  Some([total_sales |-> total_sales,
                        total_purchases_cost |-> total_purchases_cost,
                        profit |-> profit]))
  /\ UNCHANGED <<storeVars, aborted, file, pc>>

\* the Store calls the menus of ui_loop make
MenuNext ==
  \/ \E name \in Names, description \in Descriptions, price \in Prices,
        quantity \in Quantities :
       add_product(name, description, price, quantity)
  \/ \E id \in Ids, name \in Option(NewNames),
        description \in Option(NewDescriptions), price \in Option(NewPrices),
        quantity \in Option(NewQuantities) :
       edit_product(id, name, description, price, quantity)
  \/ \E id \in Ids : delete_product(id)
  \/ \E product_id \in Ids, quantity \in Quantities, purchase_price \in UnitPrices :
       record_purchase(product_id, quantity, purchase_price)
  \/ \E product_id \in Ids, quantity \in Quantities, sale_price \in UnitPrices :
       record_sale(product_id, quantity, sale_price)
  \/ report

\* any operation on the Store held, in any order
Next ==
  \/ MenuNext
  \/ save_to_file
  \/ \E username \in Usernames, password \in NewPasswords :
       add_manager(username, password)
  \/ \E username \in Usernames, password \in Passwords :
       authenticate(username, password)

Spec == Init /\ [][Next]_vars

\* the same, and the Store held may be replaced by the one load_from_file builds
NextPersist ==
  \/ Next
  \/ load_from_file

SpecPersist == Init /\ [][NextPersist]_vars

(* ------------------------------ main() -------------------------------- *)
\* DATA_FILE as main() may find it: absent, not a snapshot, or the snapshot
\* of a fresh Store
StartupFiles == {None, Some(Garbage), Some(to_json(Store_new))}

\* `Store::load_from_file()` with the fallback `Store::new()` on Err
LoadOrNew ==
  IF load_from_file_result # None THEN load_from_file_result[1] ELSE Store_new

\* before main() has bound `store`
InitMain ==
  /\ products = <<>>
  /\ sales = <<>>
  /\ purchases = <<>>
  /\ managers = <<>>
  /\ next_product_id = 1
  /\ next_sale_id = 1
  /\ next_purchase_id = 1
  /\ last = Call("main", None, None, None, None, None, "Ok", None)
  /\ calls = 0
  /\ aborted = FALSE
  /\ file \in StartupFiles
  /\ pc = "main"

\* `let store = match Store::load_from_file() { Ok(s) => s, Err(e) => Store::new() }`
main_load ==
  /\ pc = "main"
  /\ HoldStore(LoadOrNew)
  /\ last' = Call("load_from_file", None, None, None, None, None,
                  IF load_from_file_result # None THEN "Ok" ELSE "IoError", None)
  /\ pc' = "login"
  /\ UNCHANGED <<calls, aborted, file>>

\* login_sequence() loads the file itself; `if !login_sequence() { return; }`
login_sequence(username, password) ==
  /\ pc = "login"
  /\ LET r == load_from_file_result
         ok == IF r # None THEN Authenticates(r[1].managers, username, password)
               ELSE FALSE
     IN /\ last' = ManagerCall("login_sequence", username, password, "Ok",
                               Some(ok))
        /\ pc' = IF ok THEN "reload" ELSE "exited"
  /\ UNCHANGED <<storeVars, calls, aborted, file>>

\* `let store = Store::load_from_file().unwrap_or_else(|_| Store::new()); ui_loop(store)`
main_reload ==
  /\ pc = "reload"
  /\ HoldStore(LoadOrNew)
  /\ last' = Call("load_from_file", None, None, None, None, None,
                  IF load_from_file_result # None THEN "Ok" ELSE "IoError", None)
  /\ pc' = "ui_loop"
  /\ UNCHANGED <<calls, aborted, file>>

\* ui_loop, "5": save_to_file, then leave whatever it returned
save_and_exit ==
  /\ CanCall
  /\ calls' = calls + 1
  /\ WriteSnapshot
  /\ pc' = "exited"
  /\ UNCHANGED <<storeVars, aborted>>

NextMain ==
  \/ main_load
  \/ \E username \in Usernames, password \in Passwords :
       login_sequence(username, password)
  \/ main_reload
  \/ MenuNext
  \/ save_and_exit

SpecMain == InitMain /\ [][NextMain]_vars

(* ============================ properties ============================== *)
\* the call that a step made, and the state it was made in
CalledId == last'.id[1]
CalledQuantity == last'.quantity[1]
CalledPrice == last'.price[1]
Idx == FindIndex(CalledId)
Stock == products[Idx].quantity

IsPrefix(s, t) == Len(s) <= Len(t) /\ SubSeq(t, 1, Len(s)) = s
AppendsOne(s, t) == Len(t) = Len(s) + 1 /\ IsPrefix(s, t)
StrictlyIncreasingIds(s) ==
  \A i, j \in 1..Len(s) : i < j => s[i].id < s[j].id

(* ------------------------------- C1 ----------------------------------- *)
\* C1: record_sale(p, q, price) with q greater than the current quantity of
\* an existing product p fails with InsufficientStock and leaves the whole
\* Store unchanged; and no record_sale takes a product's quantity from a
\* non-negative value to a negative one.
C1_SaleAboveStockStep ==
  last'.op = "record_sale" =>
    /\ (Idx # 0 /\ CalledQuantity > Stock) =>
         /\ last'.err = "InsufficientStock"
         /\ UNCHANGED storeVars
    /\ Len(products') = Len(products)
    /\ \A i \in 1..Len(products) :
         products[i].quantity >= 0 => products'[i].quantity >= 0
C1_SaleAboveStockRejected == [][C1_SaleAboveStockStep]_vars

(* ------------------------------- C2 ----------------------------------- *)
\* C2: record_sale(p, q, price) on an existing product p with
\* 0 < q <= current quantity succeeds, decreases p's quantity by exactly q,
\* appends exactly one Sale carrying p, q and the given price, and leaves
\* every other product and the purchase ledger unchanged.
C2_SaleWithinStockStep ==
  (last'.op = "record_sale" /\ Idx # 0
     /\ 0 < CalledQuantity /\ CalledQuantity <= Stock) =>
    /\ last'.err = "Ok"
    /\ Len(products') = Len(products)
    /\ products'[Idx] = [products[Idx] EXCEPT !.quantity = @ - CalledQuantity]
    /\ \A j \in 1..Len(products) : j # Idx => products'[j] = products[j]
    /\ AppendsOne(sales, sales')
    /\ LET s == sales'[Len(sales')]
       IN /\ s.product_id = CalledId
          /\ s.quantity = CalledQuantity
          /\ s.sale_price = CalledPrice
          /\ last'.ret = Some(s)
    /\ purchases' = purchases
C2_SaleWithinStock == [][C2_SaleWithinStockStep]_vars

\* a sale of the whole stock went through
C2_Witness ==
  /\ last.op = "record_sale" /\ last.err = "Ok"
  /\ FindIndex(last.id[1]) # 0
  /\ products[FindIndex(last.id[1])].quantity = 0
  /\ Len(sales) = 1

(* ------------------------------- C3 ----------------------------------- *)
\* C3: record_purchase(p, q, price) on an existing product p increases
\* find_product(p).quantity by exactly q and appends exactly one Purchase
\* with a fresh id, for every q > 0 and every current quantity that is an i32.
C3_PurchaseStep ==
  (last'.op = "record_purchase" /\ Idx # 0 /\ CalledQuantity > 0) =>
    /\ last'.err = "Ok"
    /\ ~Overflows(Stock, CalledQuantity)
    /\ products'[Idx].quantity = Stock + CalledQuantity
    /\ AppendsOne(purchases, purchases')
    /\ \A k \in 1..Len(purchases) :
         purchases[k].id # purchases'[Len(purchases')].id
C3_PurchaseAddsExactly == [][C3_PurchaseStep]_vars

(* ------------------------------- C4 ----------------------------------- *)
\* C4: record_purchase and record_sale fail with InvalidInput whenever
\* quantity <= 0, whether or not the product id resolves, and with NotFound
\* when quantity > 0 and no product has that id (a deleted product's id
\* included); in both cases the Store is unchanged.
C4_RejectStep ==
  last'.op \in {"record_purchase", "record_sale"} =>
    /\ CalledQuantity <= 0 =>
         /\ last'.err = "InvalidInput" /\ last'.ret = None
         /\ UNCHANGED storeVars
    /\ (CalledQuantity > 0 /\ Idx = 0) =>
         /\ last'.err = "NotFound" /\ last'.ret = None
         /\ UNCHANGED storeVars
C4_InvalidInputThenNotFound == [][C4_RejectStep]_vars

\* a sale against the id of a product that was deleted came back NotFound
C4_Witness ==
  /\ last.op = "record_sale" /\ last.err = "NotFound"
  /\ last.id[1] < next_product_id
  /\ last.quantity[1] > 0

(* ------------------------------- C5 ----------------------------------- *)
\* C5: after any sequence of mutators from Store::new, the ids within the
\* product collection, the sale ledger and the purchase ledger are pairwise
\* distinct and strictly increasing in sequence order, and an id once
\* assigned to a product is never assigned to a later product, even after
\* that product was deleted (every id in use lies below the counter, the
\* counter never goes back, and a new product takes the counter's value).
C5_IdsOrdered ==
  /\ StrictlyIncreasingIds(products)
  /\ StrictlyIncreasingIds(sales)
  /\ StrictlyIncreasingIds(purchases)
  /\ \A i \in 1..Len(products) : products[i].id < next_product_id
C5_NoReuseStep ==
  /\ next_product_id' >= next_product_id
  /\ last'.op = "add_product" =>
       /\ last'.ret[1].id = next_product_id
       /\ next_product_id' > next_product_id
       /\ products'[Len(products')].id = next_product_id
C5_IdsUniqueIncreasingNeverReused == []C5_IdsOrdered /\ [][C5_NoReuseStep]_vars

\* a product was added after the first one was deleted: it is alone, with id 2
C5_Witness ==
  /\ last.op = "add_product"
  /\ Len(products) = 1
  /\ products[1].id = 2

(* ------------------------------- C6 ----------------------------------- *)
\* C6: each id counter starts at 1 and advances by exactly one on each
\* successful creation of its entity and on nothing else; the created entry
\* carries the counter's value before the call; add_product always succeeds.
C6_CountersStart ==
  last.op = "new" =>
    next_product_id = 1 /\ next_sale_id = 1 /\ next_purchase_id = 1
C6_CounterStep ==
  /\ last'.op = "add_product" => last'.err = "Ok"
  /\ IF last'.op = "add_product"
     THEN next_product_id' = next_product_id + 1
          /\ last'.ret[1].id = next_product_id
     ELSE next_product_id' = next_product_id
  /\ IF last'.op = "record_sale" /\ last'.err = "Ok"
     THEN next_sale_id' = next_sale_id + 1
          /\ last'.ret[1].id = next_sale_id
     ELSE next_sale_id' = next_sale_id
  /\ IF last'.op = "record_purchase" /\ last'.err = "Ok"
     THEN next_purchase_id' = next_purchase_id + 1
          /\ last'.ret[1].id = next_purchase_id
     ELSE next_purchase_id' = next_purchase_id
C6_CountersAdvanceByOne == []C6_CountersStart /\ [][C6_CounterStep]_vars

\* one creation of each entity: every counter has advanced once
C6_Witness ==
  /\ next_product_id = 2 /\ next_sale_id = 2 /\ next_purchase_id = 2
  /\ last.op = "record_sale" /\ last.ret[1].id = 1

(* ------------------------------- C7 ----------------------------------- *)
\* C7: edit_product on an existing product changes exactly the supplied
\* fields to the supplied values and returns the updated record (all fields
\* omitted: unchanged); id, other products, ledgers and counters are
\* unchanged; on an unknown id it fails with NotFound and changes nothing.
C7_Field(opt, old) == IF opt = None THEN old ELSE opt[1]
C7_EditStep ==
  last'.op = "edit_product" =>
    IF Idx = 0
    THEN last'.err = "NotFound" /\ last'.ret = None /\ UNCHANGED storeVars
    ELSE LET old == products[Idx]
             new == [id |-> old.id,
                     name |-> C7_Field(last'.name, old.name),
                     description |-> C7_Field(last'.description, old.description),
                     price |-> C7_Field(last'.price, old.price),
                     quantity |-> C7_Field(last'.quantity, old.quantity)]
         IN /\ last'.err = "Ok" /\ last'.ret = Some(new)
            /\ Len(products') = Len(products)
            /\ products'[Idx] = new
            /\ \A j \in 1..Len(products) : j # Idx => products'[j] = products[j]
            /\ UNCHANGED <<sales, purchases, managers, next_product_id,
                           next_sale_id, next_purchase_id>>
C7_EditChangesSuppliedFields == [][C7_EditStep]_vars

\* an edit supplying a name and a quantity only, with another product present
C7_Witness ==
  /\ last.op = "edit_product" /\ last.err = "Ok"
  /\ last.name # None /\ last.quantity # None
  /\ last.description = None /\ last.price = None
  /\ Len(products) = 2
  /\ last.ret[1].name = "B" /\ last.ret[1].description = "d"

(* ------------------------------- C8 ----------------------------------- *)
\* C8: delete_product(id) on an existing product removes exactly that
\* product, after which find_product(id) yields nothing; the other products
\* keep order and contents, the ledgers (entries referencing the deleted id
\* included) and counters are untouched; on an unknown id it fails with
\* NotFound and the Store is unchanged.
C8_DeleteStep ==
  last'.op = "delete_product" =>
    IF Idx = 0
    THEN last'.err = "NotFound" /\ UNCHANGED storeVars
    ELSE /\ last'.err = "Ok"
         /\ Len(products') = Len(products) - 1
         /\ \A j \in 1..Len(products') :
              products'[j] = IF j < Idx THEN products[j] ELSE products[j + 1]
         /\ \A j \in 1..Len(products') : products'[j].id # CalledId
         /\ UNCHANGED <<sales, purchases, managers, next_product_id,
                        next_sale_id, next_purchase_id>>
C8_DeleteRemovesExactlyOne == [][C8_DeleteStep]_vars

\* a product was deleted while a purchase entry still references its id
C8_Witness ==
  /\ last.op = "delete_product" /\ last.err = "Ok"
  /\ find_product(last.id[1]) = None
  /\ Len(purchases) = 1 /\ purchases[1].product_id = last.id[1]

(* ------------------------------- C9 ----------------------------------- *)
\* C9: in every state reachable from Store::new by the mutators, called with
\* arbitrary signed quantities, every product's quantity on hand is >= 0.
C9_QuantityNonNegative ==
  \A i \in 1..Len(products) : products[i].quantity >= 0

(* ------------------------------- C10 ---------------------------------- *)
\* C10: the ledgers are append-only: the ledger before any operation is a
\* prefix of the ledger after it, and only a successful record_purchase /
\* record_sale lengthens a ledger, by exactly one entry.
C10_LedgerStep ==
  /\ IsPrefix(sales, sales')
  /\ IsPrefix(purchases, purchases')
  /\ IF last'.op = "record_sale" /\ last'.err = "Ok"
     THEN Len(sales') = Len(sales) + 1
     ELSE Len(sales') = Len(sales)
  /\ IF last'.op = "record_purchase" /\ last'.err = "Ok"
     THEN Len(purchases') = Len(purchases) + 1
     ELSE Len(purchases') = Len(purchases)
C10_LedgersAppendOnly == [][C10_LedgerStep]_vars

\* a second sale was appended behind the first
C10_Witness ==
  /\ Len(sales) = 2
  /\ last.op = "record_sale" /\ last.err = "Ok"
  /\ sales[2] = last.ret[1]

(* ------------------------------- C11 ---------------------------------- *)
\* C11: after any sequence of operations total_sales() is the sum over the
\* sale entries of sale_price * quantity, total_purchases_cost() the sum over
\* the purchase entries of purchase_price * quantity, and profit() their
\* difference; the sums are taken over the ledgers alone, so in every state,
\* those reached by editing or deleting a product that entries reference
\* included, the totals owe nothing to the products.
RECURSIVE C11_SumFrom(_, _)
C11_SumFrom(terms, i) ==
  IF i > Len(terms) THEN W(0)
  ELSE WAdd(WTimes(terms[i][1], terms[i][2]), C11_SumFrom(terms, i + 1))
C11_SaleTerms ==
  [i \in 1..Len(sales) |-> <<sales[i].sale_price.v, sales[i].quantity>>]
C11_PurchaseTerms ==
  [i \in 1..Len(purchases) |->
     <<purchases[i].purchase_price.v, purchases[i].quantity>>]
C11_TotalsAreLedgerSums ==
  /\ total_sales = F64(TRUE, C11_SumFrom(C11_SaleTerms, 1))
  /\ total_purchases_cost = F64(TRUE, C11_SumFrom(C11_PurchaseTerms, 1))
  /\ profit = F64(TRUE, WSub(C11_SumFrom(C11_SaleTerms, 1),
                             C11_SumFrom(C11_PurchaseTerms, 1)))
  /\ last.op = "report" =>
       /\ last.ret[1].total_sales = total_sales
       /\ last.ret[1].total_purchases_cost = total_purchases_cost
       /\ last.ret[1].profit = profit

\* a report after a sale of 1 at 7.0 of a product priced 5.0: total sales 7,
\* purchases 0, profit 7
C11_Witness ==
  /\ last.op = "report"
  /\ Len(products) = 1 /\ products[1].price = F(5)
  /\ Len(sales) = 1 /\ Len(purchases) = 0
  /\ last.ret[1].total_sales = F64(TRUE, W(7))
  /\ last.ret[1].profit = F64(TRUE, W(7))

(* ------------------------------- C12 ---------------------------------- *)
\* C12: authenticate(u, p) returns true exactly when some stored manager has
\* username u and a stored digest equal to the digest of p (unknown username
\* or wrong password: false); it changes no Store state; and right after
\* add_manager(u, p), authenticate(u, p) would be true.
C12_Matches(ms, u, p) ==
  {i \in 1..Len(ms) : ms[i] = Manager(u, hash_password(p))} # {}
C12_Result ==
  last.op = "authenticate" =>
    last.ret = Some(C12_Matches(managers, last.username[1], last.password[1]))
C12_Step ==
  /\ last'.op = "authenticate" => UNCHANGED <<storeVars, file>>
  /\ last'.op = "add_manager" =>
       Authenticates(managers', last'.username[1], last'.password[1])
C12_AuthenticateExact == []C12_Result /\ [][C12_Step]_vars

\* a known username with the wrong password was refused
C12_Witness ==
  /\ last.op = "authenticate" /\ last.ret = Some(FALSE)
  /\ \E i \in 1..Len(managers) : managers[i].username = last.username[1]
  /\ Len(managers) = 2

(* ------------------------------- C16 ---------------------------------- *)
\* C16 as stated: add_manager performs no uniqueness check, so several
\* managers may share a username; authenticate(u, p) is then decided by the
\* first manager record in list order whose username is u.
C16_FirstIndex(u) ==
  CHOOSE i \in 1..Len(managers) :
    /\ managers[i].username = u
    /\ \A j \in 1..(i - 1) : managers[j].username # u
C16_FirstRecordDecides ==
  (last.op = "authenticate"
     /\ \E i \in 1..Len(managers) : managers[i].username = last.username[1]) =>
    last.ret = Some(managers[C16_FirstIndex(last.username[1])].password_hash
                      = hash_password(last.password[1]))

\* C16 as amended: add_manager appends a record whatever usernames exist, so
\* several managers may share a username; authenticate(u, p) is then true
\* when the digest of p is the digest of any record whose username is u,
\* whatever its position, and false otherwise.
C16_Digests(u) ==
  {managers[i].password_hash :
     i \in {j \in 1..Len(managers) : managers[j].username = u}}
C16_AnyRecordResult ==
  last.op = "authenticate" =>
    last.ret = Some(hash_password(last.password[1]) \in C16_Digests(last.username[1]))
C16_AppendStep ==
  last'.op = "add_manager" =>
    /\ Len(managers') = Len(managers) + 1
    /\ SubSeq(managers', 1, Len(managers)) = managers
    /\ managers'[Len(managers')].username = last'.username[1]
C16_AnyRecordDecides == []C16_AnyRecordResult /\ [][C16_AppendStep]_vars

\* two records named admin; the password of the second one was accepted
C16_Witness ==
  /\ last.op = "authenticate" /\ last.ret = Some(TRUE)
  /\ Len(managers) = 2
  /\ managers[1].username = last.username[1]
  /\ managers[2].username = last.username[1]
  /\ managers[1].password_hash # hash_password(last.password[1])

(* ------------------------------- C13 ---------------------------------- *)
\* C13: for any reachable Store state s, save_to_file followed by
\* load_from_file yields a Store with the same products, ledgers, managers
\* and id counters as s, and save_to_file overwrites any prior snapshot in
\* full (what is loaded never mixes in an earlier snapshot).
C13_Step ==
  /\ (last.op = "save_to_file" /\ last.err = "Ok"
        /\ last'.op = "load_from_file") =>
       /\ last'.err = "Ok"
       /\ storeVars' = storeVars
  /\ (last'.op = "save_to_file" /\ last'.err = "Ok") =>
       /\ file' # None
       /\ file'[1][2].next_product_id = next_product_id
       /\ Len(file'[1][2].products) = Len(products)
       /\ Len(file'[1][2].sales) = Len(sales)
       /\ Len(file'[1][2].purchases) = Len(purchases)
       /\ file'[1][2].managers = managers
C13_SaveLoadRoundTrip == [][C13_Step]_vars

(* ------------------------------- C15 ---------------------------------- *)
\* C15: Store::new, and load_from_file when no snapshot exists, both yield a
\* Store with empty products and ledgers, all three id counters equal to 1,
\* and exactly one manager ("admin" with the digest of the default
\* password); authenticate("admin", default password) is true in that state.
C15_Fresh ==
  /\ products = <<>> /\ sales = <<>> /\ purchases = <<>>
  /\ next_product_id = 1 /\ next_sale_id = 1 /\ next_purchase_id = 1
  /\ Len(managers) = 1
  /\ managers[1].username = "admin"
  /\ managers[1].password_hash = hash_password("password")
  /\ Authenticates(managers, "admin", "password")
C15_FreshAfter ==
  (last.op = "new" \/ (last.op = "load_from_file" /\ file = None)) =>
    (last.err = "Ok" /\ C15_Fresh)
C15_FreshStore == []C15_FreshAfter

\* load_from_file without a snapshot, after the caller's Store had changed
C15_Witness ==
  /\ last.op = "load_from_file" /\ file = None
  /\ calls = 3
  /\ Len(managers) = 1

(* ------------------------------- C14 ---------------------------------- *)
\* C14: when the snapshot load fails at startup (the file exists but cannot
\* be deserialized) the program does not abort: it falls back to a freshly
\* constructed empty Store with the default manager and continues, so that
\* the default credential can log in and reach the main menu.
C14_LoadFails == file # None /\ ~from_str_ok(file[1])
C14_Step ==
  /\ (pc = "main" /\ C14_LoadFails) =>
       /\ pc' = "login"
       /\ ~aborted'
       /\ StoreValue' = Store_new
  /\ (pc = "login" /\ C14_LoadFails
        /\ last'.username = Some(DEFAULT_ADMIN_USER)
        /\ last'.password = Some(DEFAULT_ADMIN_PASS)) =>
       /\ last'.ret = Some(TRUE)
       /\ pc' # "exited"
C14_FallbackThenLogin == [][C14_Step]_vars

(* ------------------------------- C17 ---------------------------------- *)
\* C17: for every product whose quantity was never supplied to
\* edit_product, in every reachable state its quantity equals the quantity
\* given to add_product plus the quantities of the purchase entries that
\* reference its id minus those of the sale entries that reference its id;
\* and every ledger entry has quantity > 0 and references a product id
\* smaller than next_product_id.  Stated step by step: a new product starts
\* with the quantity given and no entry referencing it, and no step other
\* than an edit_product supplying a quantity changes quantity - purchased +
\* sold of a product.
RECURSIVE C17_QuantitySum(_, _, _)
C17_QuantitySum(entries, id, i) ==
  IF i > Len(entries) THEN W(0)
  ELSE WAdd(IF entries[i].product_id = id THEN W(entries[i].quantity) ELSE W(0),
            C17_QuantitySum(entries, id, i + 1))
C17_Quantity(ps, id) ==
  ps[CHOOSE i \in 1..Len(ps) : ps[i].id = id].quantity
C17_Balance(ps, sl, pu, id) ==
  WAdd(WSub(W(C17_Quantity(ps, id)), C17_QuantitySum(pu, id, 1)),
       C17_QuantitySum(sl, id, 1))
C17_IdsOf(ps) == {ps[i].id : i \in 1..Len(ps)}
C17_Entries ==
  /\ \A i \in 1..Len(sales) :
       sales[i].quantity > 0 /\ sales[i].product_id < next_product_id
  /\ \A i \in 1..Len(purchases) :
       purchases[i].quantity > 0 /\ purchases[i].product_id < next_product_id
C17_Step ==
  /\ last'.op = "add_product" =>
       C17_Balance(products', sales', purchases', last'.ret[1].id)
         = W(last'.quantity[1])
  /\ \A id \in C17_IdsOf(products) \cap C17_IdsOf(products') :
       ~(last'.op = "edit_product" /\ last'.id = Some(id)
           /\ last'.quantity # None) =>
         C17_Balance(products', sales', purchases', id)
           = C17_Balance(products, sales, purchases, id)
C17_StockConservation == []C17_Entries /\ [][C17_Step]_vars

====
